---- MODULE Spec2Model ----
(***************************************************************************)
(* Blurr: a no-JS HTTP speed test (src/main.go).                           *)
(*                                                                         *)
(* The server keeps a process-wide registry `sessions` (sid -> *Sess)      *)
(* guarded by the mutex `sm`, and one mutex `mu` per Sess record.  Every   *)
(* HTTP request runs its handler (start, probe, download, upload, results) *)
(* on its own goroutine.  A handler is a sequence of steps, one step per   *)
(* access to shared state (a lock operation, a critical section, a clock   *)
(* reading, a wait for the network or the timer), so that the              *)
(* interleavings of the model are those the Go scheduler can produce.      *)
(*                                                                         *)
(* Time is a discrete clock; time.Now() reads it.  The durations of the    *)
(* program (waitTimeout, poll) and its byte counts (chunk length, default  *)
(* download size) are scaled down to a few clock ticks and byte units.     *)
(*                                                                         *)
(* A rate bw/elapsed is kept as bw, the byte count it was computed from:   *)
(* elapsed is floored at 1e-9 s, hence positive, so that the quotient is   *)
(* 0 when bw is 0 and positive otherwise, which is all the program reads.  *)
(***************************************************************************)
EXTENDS Integers, Sequences, FiniteSets, TLC

\* ------------------------------------------------------------------ bounds
\* Number of HTTP requests served in one behaviour.
NProcs == 3
\* Number of requests in flight at once.
MaxInFlight == 2
\* The clock stops advancing here.
MaxClock == 3

\* ------------------------------------------------------- program constants
\* waitTimeout (30 s) and poll (150 ms) of results, in clock ticks.
waitTimeout == 1
poll == 1
\* len(chunk) (64 KiB) and the default download size (8 MiB), in byte units.
chunkLen == 2
defaultSize == 3
\* The probe counter at which the chain hands over to the download.
lastProbe == 8
\* The base of the identifier encoding.
idBase == 36
\* The zero time.Time (LastSent of a fresh Sess); the clock starts after it.
ZeroTime == 0

Procs == 1..NProcs

\* ---------------------------------------------------------- request inputs
\* Strings are sequences of base-36 digits; <<>> is the empty string.
EmptySid == <<>>
\* The sid parameter a client sends: none, or the id a start at clock 1 issues.
ClientSids == {EmptySid, <<1>>}
\* strconv.Atoi of the n parameter (0 also for a missing or malformed one).
ProbeNs == {0, 1, 8}
\* strconv.Atoi of the size parameter (0 also for a missing or malformed one).
SizeParams == {0, 1}
\* The "ip" form value of start.
IpParams == {"", "h"}
\* Bytes an upload request carries.
UploadSizes == {0, 2}
\* The host getIP falls back to.
RemoteHost == "r"

VARIABLES
    clock,      \* the clock read by time.Now()
    sm,         \* owner of the registry mutex (0: unlocked)
    sessions,   \* the map sid -> address of a Sess
    heap,       \* the allocated Sess records, by address
    h           \* one handler invocation per request slot

vars == <<clock, sm, sessions, heap, h>>

\* ------------------------------------------------------------------ values
Positive(r) == r > 0

\* &Sess{}: every field zero.  `baseline` is history, not a field of the
\* program: which handler was the first to set LastSent.
NewSess == [mu |-> 0, LastSent |-> ZeroTime, Pings |-> <<>>, DownloadB |-> 0,
            UploadB |-> 0, ClientHost |-> "", baseline |-> "none"]

\* strconv.FormatInt(v, 36) for v >= 0: the digits, most significant first.
RECURSIVE FormatInt(_, _)
FormatInt(v, base) ==
    IF v < base THEN <<v>>
    ELSE Append(FormatInt(v \div base, base), v % base)

\* mkid(): the clock reading, encoded.
mkid == FormatInt(clock, idBase)

Min(a, b) == IF a < b THEN a ELSE b

\* A handler's local variables before the request arrives.
Idle == [pc |-> "idle", kind |-> "none", sid |-> EmptySid, n |-> 0, size |-> 0,
         ip |-> "", s |-> 0, ok |-> FALSE, now |-> 0, bw |-> 0,
         werr |-> FALSE, bps |-> 0, began |-> 0, deadline |-> 0, wake |-> 0,
         pings |-> <<>>, download |-> 0, upload |-> 0, client |-> "",
         status |-> 0, next |-> "none"]

\* The handler returned: its locals are gone, the request line and the
\* response (status, and where the page sends the client next) remain.
Done(r, status, next) ==
    [Idle EXCEPT !.pc = "done", !.kind = r.kind, !.sid = r.sid,
                 !.status = status, !.next = next]

Init ==
    /\ clock = 1
    /\ sm = 0
    /\ sessions = <<>>
    /\ heap = <<>>
    /\ h = [p \in Procs |-> Idle]

InFlight(p) == h[p].pc \notin {"idle", "done"}

\* Requests arrive in slot order, while fewer than MaxInFlight are running.
Arrives(p) ==
    /\ h[p].pc = "idle"
    /\ p > 1 => h[p - 1].pc # "idle"
    /\ Cardinality({q \in Procs : InFlight(q)}) < MaxInFlight

\* ------------------------------------------------------------------ idxGet
\* Where each handler continues after its idxGet call returns.
AfterIdx(kind) ==
    CASE kind = "start"    -> "st_set"
      [] kind = "probe"    -> "pr_now"
      [] kind = "download" -> "dl_commit"
      [] kind = "upload"   -> "up_read"
      [] kind = "results"  -> "rs_deadline"

\* sync.Mutex.Lock returns once the mutex is free.
MutexFree(owner) == owner = 0

\* Mutant: idxGet without sm.Lock(), so that two lookups can interleave.
IdxLockUnguarded(p) ==
    /\ h[p].pc = "ix_lock"
    /\ sm' = p
    /\ h' = [h EXCEPT ![p].pc = "ix_body",
                      ![p].ok = h[p].sid \in DOMAIN sessions,
                      ![p].s = IF h[p].sid \in DOMAIN sessions
                               THEN sessions[h[p].sid] ELSE 0]
    /\ UNCHANGED <<clock, sessions, heap>>

\* Mutant: the lookup ignores the key and finds the first record registered.
IdxLockAnyKey(p) ==
    /\ h[p].pc = "ix_lock"
    /\ MutexFree(sm)
    /\ sm' = p
    /\ h' = [h EXCEPT ![p].pc = "ix_body",
                      ![p].ok = Len(heap) > 0,
                      ![p].s = IF Len(heap) > 0 THEN 1 ELSE 0]
    /\ UNCHANGED <<clock, sessions, heap>>

\* sm.Lock(); s, ok := sessions[sid]
IdxLock(p) ==
    /\ h[p].pc = "ix_lock"
    /\ MutexFree(sm)
    /\ sm' = p
    /\ h' = [h EXCEPT ![p].pc = "ix_body",
                      ![p].ok = h[p].sid \in DOMAIN sessions,
                      ![p].s = IF h[p].sid \in DOMAIN sessions
                               THEN sessions[h[p].sid] ELSE 0]
    /\ UNCHANGED <<clock, sessions, heap>>

\* Mutant: a request for an identifier that is not registered is rejected.
IdxBodyRejectUnknown(p) ==
    /\ h[p].pc = "ix_body"
    /\ IF h[p].ok
       THEN h' = [h EXCEPT ![p].pc = AfterIdx(h[p].kind), ![p].ok = FALSE]
       ELSE h' = [h EXCEPT ![p] = Done(h[p], 400, "none")]
    /\ sm' = 0
    /\ UNCHANGED <<clock, sessions, heap>>

\* Mutant: idxGet returns without sm.Unlock().
IdxBodyKeepLock(p) ==
    /\ h[p].pc = "ix_body"
    /\ IF h[p].ok
       THEN /\ h' = [h EXCEPT ![p].pc = AfterIdx(h[p].kind), ![p].ok = FALSE]
            /\ UNCHANGED <<sessions, heap>>
       ELSE /\ heap' = Append(heap, NewSess)
            /\ sessions' = [x \in DOMAIN sessions \cup {h[p].sid} |->
                              IF x = h[p].sid THEN Len(heap) + 1 ELSE sessions[x]]
            /\ h' = [h EXCEPT ![p].pc = AfterIdx(h[p].kind),
                              ![p].s = Len(heap) + 1]
    /\ UNCHANGED <<clock, sm>>

\* if ok { return s }; s := &Sess{}; sessions[sid] = s; return s
\* (with the deferred sm.Unlock()).
IdxBody(p) ==
    /\ h[p].pc = "ix_body"
    /\ IF h[p].ok
       THEN /\ h' = [h EXCEPT ![p].pc = AfterIdx(h[p].kind), ![p].ok = FALSE]
            /\ UNCHANGED <<sessions, heap>>
       ELSE /\ heap' = Append(heap, NewSess)
            /\ sessions' = [x \in DOMAIN sessions \cup {h[p].sid} |->
                              IF x = h[p].sid THEN Len(heap) + 1 ELSE sessions[x]]
            /\ h' = [h EXCEPT ![p].pc = AfterIdx(h[p].kind),
                              ![p].s = Len(heap) + 1]
    /\ sm' = 0
    /\ UNCHANGED clock

\* s.mu.Lock() of the handler's record succeeds.  The critical sections of
\* start, probe, download and upload are straight-line field writes ending
\* with s.mu.Unlock(): each is one step, taken when the mutex is free.
MuFree(p) == MutexFree(heap[h[p].s].mu)

\* ------------------------------------------------------------------- start
\* r.ParseForm() (400 on an error); sid := mkid(); idxGet(sid)
StartBegin(p) ==
    /\ Arrives(p)
    /\ \E badForm \in BOOLEAN, ip \in IpParams :
         h' = [h EXCEPT ![p] =
                 IF badForm
                 THEN Done([Idle EXCEPT !.kind = "start"], 400, "none")
                 ELSE [Idle EXCEPT !.pc = "ix_lock", !.kind = "start",
                                   !.sid = mkid, !.ip = ip]]
    /\ UNCHANGED <<clock, sm, sessions, heap>>

\* s.mu.Lock(); s.ClientHost = ip; s.LastSent = time.Now(); s.mu.Unlock();
\* respond with the refresh to /probe?sid=<sid>&n=1.
StartSet(p) ==
    /\ h[p].pc = "st_set"
    /\ MuFree(p)
    /\ heap' = [heap EXCEPT
                  ![h[p].s].ClientHost = h[p].ip,
                  ![h[p].s].LastSent = clock,
                  ![h[p].s].baseline = IF @ = "none" THEN "start" ELSE @]
    /\ h' = [h EXCEPT ![p] = [Done(h[p], 200, "probe") EXCEPT !.n = 1]]
    /\ UNCHANGED <<clock, sm, sessions>>

\* ------------------------------------------------------------------- probe
\* Mutant: only a missing sid is rejected, any counter is accepted.
ProbeBeginAnyCounter(p) ==
    /\ Arrives(p)
    /\ \E sid \in ClientSids, n \in ProbeNs :
         LET r == [Idle EXCEPT !.kind = "probe", !.sid = sid, !.n = n]
         IN h' = [h EXCEPT ![p] =
                    IF sid = EmptySid
                    THEN Done(r, 400, "none")
                    ELSE [r EXCEPT !.pc = "ix_lock"]]
    /\ UNCHANGED <<clock, sm, sessions, heap>>

\* sid, n from the query; 400 if sid == "" || n < 1; else idxGet(sid).
ProbeRequest(sid, n) ==
    LET r == [Idle EXCEPT !.kind = "probe", !.sid = sid, !.n = n]
    IN IF sid = EmptySid \/ n < 1
       THEN Done(r, 400, "none")
       ELSE [r EXCEPT !.pc = "ix_lock"]

\* A probe request arrives.
ProbeBegin(p) ==
    /\ Arrives(p)
    /\ \E sid \in ClientSids, n \in ProbeNs :
         h' = [h EXCEPT ![p] = ProbeRequest(sid, n)]
    /\ UNCHANGED <<clock, sm, sessions, heap>>

\* now := time.Now()
ProbeNow(p) ==
    /\ h[p].pc = "pr_now"
    /\ h' = [h EXCEPT ![p].pc = "pr_commit", ![p].now = clock]
    /\ UNCHANGED <<clock, sm, sessions, heap>>

\* Mutant: the first probe is not skipped.
ProbePingsAlways(s, now) == Append(s.Pings, now - s.LastSent)

\* Mutant: the sample is put in front of the others.
ProbePingsPrepend(s, now) ==
    IF s.LastSent # ZeroTime THEN <<now - s.LastSent>> \o s.Pings
    ELSE s.Pings

\* if !s.LastSent.IsZero() { delta := now - s.LastSent; append(s.Pings, delta) }
ProbePings(s, now) ==
    IF s.LastSent # ZeroTime THEN Append(s.Pings, now - s.LastSent)
    ELSE s.Pings

\* Mutant: the chain hands over one probe early.
ProbeNextEarly(n) == IF n < lastProbe - 1 THEN "probe" ELSE "download"

\* The page a probe with counter n answers with.
ProbeNext(n) == IF n < lastProbe THEN "probe" ELSE "download"

\* s.mu.Lock(); the sample; s.LastSent = now; s.mu.Unlock(); then the page:
\* the refresh to probe n+1, or the download trigger (its link carries the
\* default size and a mkid() nonce, which nothing reads back).
ProbeCommit(p) ==
    /\ h[p].pc = "pr_commit"
    /\ MuFree(p)
    /\ heap' = [heap EXCEPT
                  ![h[p].s].Pings = ProbePings(heap[h[p].s], h[p].now),
                  ![h[p].s].LastSent = h[p].now,
                  ![h[p].s].baseline = IF @ = "none" THEN "probe" ELSE @]
    /\ h' = [h EXCEPT ![p] =
               [Done(h[p], 200, ProbeNext(h[p].n)) EXCEPT
                  !.n = IF h[p].n < lastProbe THEN h[p].n + 1 ELSE 0,
                  !.size = IF h[p].n < lastProbe THEN 0 ELSE defaultSize]]
    /\ UNCHANGED <<clock, sm, sessions>>

\* ---------------------------------------------------------------- download
\* size <= 0 is replaced by the default.
DownloadSize(param) == IF param <= 0 THEN defaultSize ELSE param

\* Mutant: every chunk is written whole.
ChunkToWhole(size, bw) == chunkLen

\* The length of the next chunk: to := size - bw, capped at len(chunk).
ChunkTo(size, bw) == Min(size - bw, chunkLen)

\* bps := float64(bw) / elapsed, elapsed floored at 1e-9.
Rate(bytes) == bytes

\* sid, size from the query; the headers; start := time.Now(); bw := 0.
DownloadRequest(sid, param) ==
    [Idle EXCEPT !.pc = "dl_loop", !.kind = "download", !.sid = sid,
                 !.size = DownloadSize(param)]

\* A download request arrives.
DownloadBegin(p) ==
    /\ Arrives(p)
    /\ \E sid \in ClientSids, param \in SizeParams :
         h' = [h EXCEPT ![p] = DownloadRequest(sid, param)]
    /\ UNCHANGED <<clock, sm, sessions, heap>>

\* Mutant: the rate is computed from the requested size.
DownloadAfterLoopOverSize(r, bw, werr) ==
    LET r2 == [r EXCEPT !.bw = bw, !.werr = werr, !.bps = Rate(r.size)]
    IN IF r.sid # EmptySid
       THEN [r2 EXCEPT !.pc = "ix_lock"]
       ELSE Done(r2, 200, "none")

\* The handler's locals once the loop has ended with bw bytes counted: the
\* rate is computed, and committed only under a non-empty sid; without one
\* the handler logs and returns.
DownloadAfterLoop(r, bw, werr) ==
    LET r2 == [r EXCEPT !.bw = bw, !.werr = werr, !.bps = Rate(bw)]
    IN IF r.sid # EmptySid
       THEN [r2 EXCEPT !.pc = "ix_lock"]
       ELSE Done(r2, 200, "none")

\* One iteration of `for bw < size`: n, err := w.Write(chunk[:to]).  On an
\* error the loop breaks and n is not counted.  When the loop ends, the
\* elapsed time is read and the rate computed.
DownloadWrite(p) ==
    /\ h[p].pc = "dl_loop"
    /\ h[p].bw < h[p].size
    /\ LET bw == h[p].bw + ChunkTo(h[p].size, h[p].bw)
       IN \/ h' = [h EXCEPT ![p] =
                     IF bw < h[p].size
                     THEN [h[p] EXCEPT !.bw = bw]
                     ELSE DownloadAfterLoop(h[p], bw, FALSE)]
          \/ h' = [h EXCEPT ![p] = DownloadAfterLoop(h[p], h[p].bw, TRUE)]
    /\ UNCHANGED <<clock, sm, sessions, heap>>

\* s.mu.Lock(); s.DownloadB = bps; s.mu.Unlock(); log bytes and bps.
DownloadCommit(p) ==
    /\ h[p].pc = "dl_commit"
    /\ MuFree(p)
    /\ heap' = [heap EXCEPT ![h[p].s].DownloadB = h[p].bps]
    /\ h' = [h EXCEPT ![p] = Done(h[p], 200, "none")]
    /\ UNCHANGED <<clock, sm, sessions>>

\* ------------------------------------------------------------------ upload
\* sid from the form, else from the query; idxGet(sid), whatever sid is.
UploadBegin(p) ==
    /\ Arrives(p)
    /\ \E sid \in ClientSids :
         h' = [h EXCEPT ![p] =
                 [Idle EXCEPT !.pc = "ix_lock", !.kind = "upload", !.sid = sid]]
    /\ UNCHANGED <<clock, sm, sessions, heap>>

\* start := time.Now(); the files (or the raw body) are copied to
\* io.Discard, n bytes in all; el := time.Since(start), floored.
UploadRead(p) ==
    /\ h[p].pc = "up_read"
    /\ \E n \in UploadSizes :
         h' = [h EXCEPT ![p].pc = "up_commit", ![p].bps = Rate(n)]
    /\ UNCHANGED <<clock, sm, sessions, heap>>

\* s.mu.Lock(); s.UploadB = float64(n) / el; s.mu.Unlock(); redirect to
\* /results?sid=<sid>.
UploadCommit(p) ==
    /\ h[p].pc = "up_commit"
    /\ MuFree(p)
    /\ heap' = [heap EXCEPT ![h[p].s].UploadB = h[p].bps]
    /\ h' = [h EXCEPT ![p] = Done(h[p], 303, "results")]
    /\ UNCHANGED <<clock, sm, sessions>>

\* ----------------------------------------------------------------- results
\* 400 if sid == ""; else idxGet(sid).  Requests arrive early enough for
\* their timeout to fall before the clock stops.
ResultsBegin(p) ==
    /\ Arrives(p)
    /\ clock + waitTimeout + poll <= MaxClock
    /\ \E sid \in ClientSids :
         LET r == [Idle EXCEPT !.kind = "results", !.sid = sid, !.began = clock]
         IN h' = [h EXCEPT ![p] =
                    IF sid = EmptySid THEN Done(r, 400, "none")
                    ELSE [r EXCEPT !.pc = "ix_lock"]]
    /\ UNCHANGED <<clock, sm, sessions, heap>>

\* deadline := time.Now().Add(waitTimeout)
ResultsDeadline(p) ==
    /\ h[p].pc = "rs_deadline"
    /\ h' = [h EXCEPT ![p].pc = "rs_lock", ![p].deadline = clock + waitTimeout]
    /\ UNCHANGED <<clock, sm, sessions, heap>>

\* Mutant: reading the download rate resets it.
ResultsRead1Consume(p) ==
    /\ h[p].pc = "rs_lock"
    /\ MuFree(p)
    /\ heap' = [heap EXCEPT ![h[p].s].mu = p, ![h[p].s].DownloadB = 0]
    /\ h' = [h EXCEPT ![p].pc = "rs_read2",
                      ![p].pings = heap[h[p].s].Pings,
                      ![p].download = heap[h[p].s].DownloadB]
    /\ UNCHANGED <<clock, sm, sessions>>

\* Mutant: the first two fields are read without s.mu.Lock().
ResultsRead1Unlocked(p) ==
    /\ h[p].pc = "rs_lock"
    /\ h' = [h EXCEPT ![p].pc = "rs_read2",
                      ![p].pings = heap[h[p].s].Pings,
                      ![p].download = heap[h[p].s].DownloadB]
    /\ UNCHANGED <<clock, sm, sessions, heap>>

\* s.mu.Lock(); pings := copy of s.Pings; download := s.DownloadB
ResultsRead1(p) ==
    /\ h[p].pc = "rs_lock"
    /\ MuFree(p)
    /\ heap' = [heap EXCEPT ![h[p].s].mu = p]
    /\ h' = [h EXCEPT ![p].pc = "rs_read2",
                      ![p].pings = heap[h[p].s].Pings,
                      ![p].download = heap[h[p].s].DownloadB]
    /\ UNCHANGED <<clock, sm, sessions>>

\* Mutant: the loop body ends without s.mu.Unlock().
ResultsRead2KeepLock(p) ==
    /\ h[p].pc = "rs_read2"
    /\ h' = [h EXCEPT ![p].pc = "rs_check",
                      ![p].upload = heap[h[p].s].UploadB,
                      ![p].client = heap[h[p].s].ClientHost]
    /\ UNCHANGED <<clock, sm, sessions, heap>>

\* upload := s.UploadB; client := s.ClientHost; s.mu.Unlock()
ResultsRead2(p) ==
    /\ h[p].pc = "rs_read2"
    /\ h' = [h EXCEPT ![p].pc = "rs_check",
                      ![p].upload = heap[h[p].s].UploadB,
                      ![p].client = heap[h[p].s].ClientHost]
    /\ heap' = [heap EXCEPT ![h[p].s].mu = 0]
    /\ UNCHANGED <<clock, sm, sessions>>

\* Mutant: the loop has no timeout.
ResultsReadyNoTimeout(r) == Positive(r.download)

\* Mutant: the deadline itself counts as past.
ResultsReadyAtDeadline(r) == Positive(r.download) \/ clock >= r.deadline

\* Mutant: only the timeout ends the loop.
ResultsReadyTimeoutOnly(r) == clock > r.deadline

\* download > 0 || time.Now().After(deadline)
ResultsReady(r) == Positive(r.download) \/ clock > r.deadline

\* The summary page: the values read in the last poll (avg and jitter are
\* computed from pings), client falling back to getIP(r).
Summary(r) ==
    [Done(r, 200, "summary") EXCEPT
       !.pings = r.pings, !.download = r.download, !.upload = r.upload,
       !.client = IF r.client = "" THEN RemoteHost ELSE r.client]

\* Render the summary and return, or time.Sleep(poll) and poll again.
ResultsCheck(p) ==
    /\ h[p].pc = "rs_check"
    /\ h' = [h EXCEPT ![p] =
               IF ResultsReady(h[p])
               THEN Summary(h[p])
               ELSE [h[p] EXCEPT !.pc = "rs_sleep", !.wake = clock + poll,
                                 !.pings = <<>>, !.download = 0,
                                 !.upload = 0, !.client = ""]]
    /\ UNCHANGED <<clock, sm, sessions, heap>>

\* time.Sleep returns once poll has elapsed.
ResultsWake(p) ==
    /\ h[p].pc = "rs_sleep"
    /\ clock >= h[p].wake
    /\ h' = [h EXCEPT ![p].pc = "rs_lock", ![p].wake = 0]
    /\ UNCHANGED <<clock, sm, sessions, heap>>

\* ------------------------------------------------------------------- clock
Tick ==
    /\ clock < MaxClock
    /\ clock' = clock + 1
    /\ UNCHANGED <<sm, sessions, heap, h>>

\* A handler that can take a step which is not a wait for the network or
\* for the timer.
Runnable(p) ==
    \/ h[p].pc \in {"ix_body", "pr_now", "rs_deadline", "rs_read2", "rs_check"}
    \/ h[p].pc = "ix_lock" /\ MutexFree(sm)
    \/ h[p].pc \in {"st_set", "pr_commit", "dl_commit", "up_commit", "rs_lock"}
         /\ MuFree(p)
    \/ h[p].pc = "rs_sleep" /\ clock >= h[p].wake

\* Time as a timing bound sees it: computation takes no time, so the clock
\* advances only while every handler waits for the network, for a lock
\* holder or for its timer, and a sleeper wakes when its time has come.
TickRT ==
    /\ \A p \in Procs : ~Runnable(p)
    /\ Tick

Step(p) ==
    \/ StartBegin(p) \/ StartSet(p)
    \/ ProbeBegin(p) \/ ProbeNow(p) \/ ProbeCommit(p)
    \/ DownloadBegin(p) \/ DownloadWrite(p) \/ DownloadCommit(p)
    \/ UploadBegin(p) \/ UploadRead(p) \/ UploadCommit(p)
    \/ ResultsBegin(p) \/ ResultsDeadline(p) \/ ResultsRead1(p)
    \/ ResultsRead2(p) \/ ResultsCheck(p) \/ ResultsWake(p)
    \/ IdxLock(p) \/ IdxBody(p)

Next == (\E p \in Procs : Step(p)) \/ Tick

Spec == Init /\ [][Next]_vars

NextRT == (\E p \in Procs : Step(p)) \/ TickRT

SpecRT == Init /\ [][NextRT]_vars

\* ------------------------------------------------ a client on the chain
\* One browser that follows the pages it is served: it posts the start form,
\* then issues exactly the request each page sends it to (the meta-refresh
\* of start and of probe n < 8, the download link and iframe of the last
\* probe page), each once the page before has arrived.  Slot 1 is the start
\* request, and slot p + 1 the request the page of slot p asks for.
ChainProcs == 1..(lastProbe + 2)

InitChain ==
    /\ clock = 1
    /\ sm = 0
    /\ sessions = <<>>
    /\ heap = <<>>
    /\ h = [p \in ChainProcs |-> Idle]

\* The page of slot p - 1 has arrived and sends the client to `next`.
Follows(p, next) ==
    /\ p > 1
    /\ h[p].pc = "idle"
    /\ h[p - 1].pc = "done" /\ h[p - 1].next = next

ChainStart(p) == p = 1 /\ StartBegin(p)

\* url=/probe?sid=<sid>&n=<next>
ChainProbe(p) ==
    /\ Follows(p, "probe")
    /\ h' = [h EXCEPT ![p] = ProbeRequest(h[p - 1].sid, h[p - 1].n)]
    /\ UNCHANGED <<clock, sm, sessions, heap>>

\* /download?sid=<sid>&size=<size>&nonce=<nonce>
ChainDownload(p) ==
    /\ Follows(p, "download")
    /\ h' = [h EXCEPT ![p] = DownloadRequest(h[p - 1].sid, h[p - 1].size)]
    /\ UNCHANGED <<clock, sm, sessions, heap>>

ChainStep(p) ==
    \/ ChainStart(p) \/ ChainProbe(p) \/ ChainDownload(p)
    \/ IdxLock(p) \/ IdxBody(p)
    \/ StartSet(p) \/ ProbeNow(p) \/ ProbeCommit(p)
    \/ DownloadWrite(p) \/ DownloadCommit(p)

NextChain == (\E p \in ChainProcs : ChainStep(p)) \/ Tick

SpecChain == InitChain /\ [][NextChain]_vars

\* =============================================================== properties
Addrs == 1..Len(heap)

IsPrefix(a, b) == Len(a) <= Len(b) /\ \A i \in 1..Len(a) : a[i] = b[i]

\* The probe requests processed against the session registered under x.
ProbesDone(x) ==
    Cardinality({p \in Procs : /\ h[p].pc = "done" /\ h[p].kind = "probe"
                               /\ h[p].status = 200 /\ h[p].sid = x})

\* The step is one of handler p.
Acts(p) == h'[p] # h[p]

\* ---------------------------------------------------------------------- C1
\* C1: under every interleaving of idxGet calls there is one record per
\* identifier: every record allocated is registered under exactly one
\* identifier, every handle a handler holds is the record registered under
\* its identifier, and a registered record is never replaced or removed.
C1_Registered ==
    /\ Len(heap) = Cardinality(DOMAIN sessions)
    /\ \A x \in DOMAIN sessions : sessions[x] \in Addrs
    /\ \A x, y \in DOMAIN sessions : sessions[x] = sessions[y] => x = y
    /\ \A p \in Procs :
         h[p].s # 0 => h[p].sid \in DOMAIN sessions /\ sessions[h[p].sid] = h[p].s

C1_Kept ==
    \A x \in DOMAIN sessions :
      x \in DOMAIN sessions' /\ sessions'[x] = sessions[x]

C1_SingleSharedRecord == [](C1_Registered) /\ [][C1_Kept]_vars

\* Two handlers running at once hold the same record for the same sid.
C1_Witness ==
    \E p, q \in Procs :
      p # q /\ h[p].s # 0 /\ h[q].s = h[p].s /\ h[q].sid = h[p].sid

C3_NonNegative ==
    \A x \in DOMAIN sessions :
      (\A p \in Procs : h[p].kind = "start" => h[p].sid # x) =>
        \A i \in 1..Len(heap[sessions[x]].Pings) :
          heap[sessions[x]].Pings[i] >= 0

\* ---------------------------------------------------------------------- C4
\* C4: a results request with a non-empty sid is answered with the summary,
\* never an error, and no later than waitTimeout + poll after it began: while
\* it runs the clock has not passed that bound and it never goes to sleep
\* beyond it, and it is never stuck: it can take a step, or it waits for a
\* lock whose holder can, or for its timer.  (Checked with the clock of
\* TickRT.)
C4_Waits(p) ==
    \/ h[p].pc = "ix_lock" /\ sm # 0 /\ Runnable(sm)
    \/ h[p].pc = "rs_lock" /\ ~MuFree(p) /\ Runnable(heap[h[p].s].mu)
    \/ h[p].pc = "rs_sleep" /\ h[p].wake <= MaxClock

C4_BoundedWait ==
    \A p \in Procs :
      h[p].kind = "results" =>
        /\ InFlight(p) =>
             /\ clock <= h[p].began + waitTimeout + poll
             /\ h[p].pc = "rs_sleep" =>
                  h[p].wake <= h[p].began + waitTimeout + poll
             /\ Runnable(p) \/ C4_Waits(p)
        /\ h[p].pc = "done" /\ h[p].sid # EmptySid =>
             h[p].status = 200 /\ h[p].next = "summary"

\* A results request polls at the bound, download_rate still unset.
C4_Witness ==
    \E p \in Procs :
      /\ h[p].kind = "results" /\ h[p].pc = "rs_check"
      /\ ~Positive(h[p].download)
      /\ clock = h[p].began + waitTimeout + poll

\* ---------------------------------------------------------------------- C5
\* C5: when a results request returns its summary, the download_rate of its
\* last poll (the one the summary shows) is positive or more than waitTimeout
\* has passed since the request began.
C5_Returns(p) == h[p].pc = "rs_check" /\ h'[p].pc = "done"

C5_NoEarlyReturn ==
    [][\A p \in Procs :
         C5_Returns(p) =>
           /\ h'[p].download = h[p].download
           /\ Positive(h'[p].download) \/ clock > h[p].began + waitTimeout]_vars

\* A summary that shows download_rate = 0.
C5_Witness ==
    \E p \in Procs :
      /\ h[p].kind = "results" /\ h[p].pc = "done" /\ h[p].status = 200
      /\ h[p].download = 0

\* ---------------------------------------------------------------------- C6
\* C6: a step of a request addressed to session A leaves the registry entry
\* and every field of the record of any other session B as they were.
C6_Isolation ==
    [][\A p \in Procs :
         Acts(p) =>
           \A x \in DOMAIN sessions :
             x # h'[p].sid =>
               /\ x \in DOMAIN sessions' /\ sessions'[x] = sessions[x]
               /\ heap'[sessions[x]] = heap[sessions[x]]]_vars

\* Two sessions, both written to.
C6_Witness ==
    \E x, y \in DOMAIN sessions :
      /\ x # y
      /\ heap[sessions[x]].LastSent # ZeroTime
      /\ heap[sessions[y]].LastSent # ZeroTime

\* ---------------------------------------------------------------------- C7
\* C7: any two start requests obtain distinct session identifiers.
C7_DistinctIds ==
    \A p, q \in Procs :
      /\ p # q
      /\ h[p].kind = "start" /\ h[p].status # 400
      /\ h[q].kind = "start" /\ h[q].status # 400
      => h[p].sid # h[q].sid

\* ---------------------------------------------------------------------- C8
\* C8: once download_rate (upload_rate) of a session is positive, no step
\* makes it 0 again.
C8_RatesStaySet ==
    [][\A a \in Addrs :
         /\ Positive(heap[a].DownloadB) => Positive(heap'[a].DownloadB)
         /\ Positive(heap[a].UploadB) => Positive(heap'[a].UploadB)]_vars

\* ---------------------------------------------------------------------- C9
\* C9: every step leaves the samples a session had as a prefix of the
\* samples it has afterwards.
C9_AppendOnly ==
    [][\A a \in Addrs : IsPrefix(heap[a].Pings, heap'[a].Pings)]_vars

\* A session with two samples.
C9_Witness == \E a \in Addrs : Len(heap[a].Pings) >= 2

\* --------------------------------------------------------------------- C10
\* C10: the byte counter of a download never exceeds the size S; a download
\* whose writes all succeed leaves the loop with exactly S bytes counted and
\* a positive rate, and commits that rate to its session.
C10_Counted ==
    \A p \in Procs :
      h[p].kind = "download" /\ InFlight(p) =>
        /\ h[p].size > 0
        /\ h[p].bw <= h[p].size
        /\ h[p].pc # "dl_loop" /\ ~h[p].werr =>
             h[p].bw = h[p].size /\ Positive(h[p].bps)

C10_Commits ==
    \A p \in Procs :
      h[p].pc = "dl_commit" /\ h'[p].pc = "done" /\ ~h[p].werr =>
        /\ heap'[h[p].s].DownloadB = h[p].bps
        /\ Positive(heap'[h[p].s].DownloadB)

C10_FullDownload == [](C10_Counted) /\ [][C10_Commits]_vars

\* The default size, two chunks with a short last one, was committed.
C10_Witness == \E a \in Addrs : heap[a].DownloadB = defaultSize

\* --------------------------------------------------------------------- C11
\* C11: a download whose write fails after k < S bytes were counted leaves
\* the loop at once with k still counted, computes its rate from k, answers
\* without an error status, and (under a sid) commits the rate computed from
\* k to its session.  (The bytes of the failing write itself are not
\* counted: `bw += n` is skipped on an error.)
C11_Stopped ==
    \A p \in Procs :
      h[p].kind = "download" /\ h[p].werr =>
        /\ h[p].pc # "dl_loop"
        /\ h[p].bw < h[p].size
        /\ h[p].bps = Rate(h[p].bw)

C11_Commits ==
    \A p \in Procs :
      /\ h[p].pc = "dl_loop" /\ h'[p].pc # "dl_loop" =>
           /\ h'[p].bw < h[p].size => h'[p].bw = h[p].bw \/ h'[p].pc = "done"
           /\ h'[p].pc = "done" => h'[p].status = 200
      /\ h[p].pc = "dl_commit" /\ h'[p].pc = "done" /\ h[p].werr =>
           /\ heap'[h[p].s].DownloadB = Rate(h[p].bw)
           /\ h'[p].status = 200

C11_PartialDownload == [](C11_Stopped) /\ [][C11_Commits]_vars

\* A session holds the rate of one chunk out of a default-size download.
C11_Witness ==
    \E a \in Addrs : heap[a].DownloadB = Rate(chunkLen) /\ chunkLen < defaultSize

\* --------------------------------------------------------------------- C12
\* C12: a probe, download or upload request without a session identifier is
\* answered with a client error, registers no session (none under the empty
\* identifier) and records no measurement.
C12_NoSidRejected ==
    /\ EmptySid \notin DOMAIN sessions
    /\ \A p \in Procs :
         /\ h[p].kind \in {"probe", "download", "upload"}
         /\ h[p].sid = EmptySid /\ h[p].pc = "done"
         => h[p].status = 400

\* --------------------------------------------------------------------- C13
\* C13: a probe (counter >= 1), download, upload or results request with a
\* non-empty identifier is rejected, if at all, on arrival and never once
\* it is running; when idxGet does not find the identifier it registers a
\* record with every field unset under it, and the handler continues at the
\* same place, with the registered record, as for an identifier it found.
C13_Answered ==
    \A p \in Procs :
      /\ h[p].s # 0 => h[p].sid \in DOMAIN sessions /\ sessions[h[p].sid] = h[p].s
      /\ h[p].pc = "done" /\ h[p].sid # EmptySid
           /\ h[p].kind \in {"download", "upload", "results"}
         => h[p].status \in {200, 303}

C13_Registers ==
    \A p \in Procs :
      /\ InFlight(p) /\ h'[p].pc = "done" => h'[p].status \in {200, 303}
      /\ h[p].pc = "idle" /\ h'[p].pc = "done" /\ h'[p].status = 400 =>
           h'[p].kind \in {"start", "probe"} \/ h'[p].sid = EmptySid
      /\ h[p].pc = "ix_body" /\ Acts(p) =>
           /\ h'[p].pc = AfterIdx(h[p].kind)
           /\ h'[p].sid = h[p].sid
           /\ h[p].sid \in DOMAIN sessions' /\ sessions'[h[p].sid] = h'[p].s
           /\ h[p].sid \notin DOMAIN sessions => heap'[h'[p].s] = NewSess
           /\ h[p].sid \in DOMAIN sessions =>
                h'[p].s = sessions[h[p].sid] /\ heap' = heap

C13_TolerantLookup == [](C13_Answered) /\ [][C13_Registers]_vars

\* The first request ever is a results request, and it got its summary.
C13_Witness ==
    /\ h[1].kind = "results" /\ h[1].pc = "done" /\ h[1].status = 200
    /\ h[1].sid \in DOMAIN sessions
    /\ \A p \in Procs : p # 1 => h[p].pc = "idle"

\* --------------------------------------------------------------------- C14
\* The fields of a record other than its mutex.
Fields(s) == [s EXCEPT !.mu = 0]

\* C14 as stated: no step of a results request changes the registry or a
\* field of a session record, whether its identifier is registered or not.
C14_ReadOnly ==
    [][\A p \in Procs :
         Acts(p) /\ h'[p].kind = "results" =>
           /\ sessions' = sessions
           /\ Len(heap') = Len(heap)
           /\ \A a \in Addrs : Fields(heap'[a]) = Fields(heap[a])]_vars

\* C14 amended: no step of a results request changes a field of an existing
\* record or an existing registry entry; the registry changes only in the
\* idxGet of a request whose identifier is not registered, by the one entry
\* of that identifier with a record whose fields are all unset.
C14_ReadOnlyButInsert ==
    [][\A p \in Procs :
         Acts(p) /\ h'[p].kind = "results" =>
           /\ \A a \in Addrs : Fields(heap'[a]) = Fields(heap[a])
           /\ \A x \in DOMAIN sessions :
                x \in DOMAIN sessions' /\ sessions'[x] = sessions[x]
           /\ h[p].sid \in DOMAIN sessions =>
                sessions' = sessions /\ Len(heap') = Len(heap)
           /\ sessions' # sessions =>
                /\ h[p].pc = "ix_body"
                /\ DOMAIN sessions' = DOMAIN sessions \cup {h[p].sid}
                /\ Len(heap') = Len(heap) + 1
                /\ heap'[sessions'[h[p].sid]] = NewSess]_vars

\* A summary was rendered from a record that holds a download rate, and the
\* record still holds it.
C14_Witness ==
    \E p \in Procs :
      /\ h[p].kind = "results" /\ h[p].pc = "done" /\ h[p].status = 200
      /\ Positive(h[p].download)
      /\ heap[sessions[h[p].sid]].DownloadB = h[p].download

\* --------------------------------------------------------------------- C15
\* C15: a probe without sid or with a counter below 1 (which a missing or
\* malformed counter parses to), and a results request without sid, is
\* answered 400 in its first step, which leaves the registry and every
\* record as they were; no such request ever runs a further step.
C15_Running ==
    \A p \in Procs :
      InFlight(p) =>
        /\ h[p].kind \in {"probe", "results"} => h[p].sid # EmptySid
        /\ h[p].kind = "probe" => h[p].n >= 1

C15_Rejects ==
    \A p \in Procs :
      /\ h[p].pc = "idle" /\ Acts(p)
      /\ \/ h'[p].kind = "probe" /\ (h'[p].sid = EmptySid \/ h'[p].n < 1)
         \/ h'[p].kind = "results" /\ h'[p].sid = EmptySid
      => /\ h'[p].pc = "done" /\ h'[p].status = 400
         /\ sessions' = sessions /\ heap' = heap

C15_ProtocolError == [](C15_Running) /\ [][C15_Rejects]_vars

\* A probe was rejected for its counter; its identifier was not registered.
C15_Witness ==
    \E p \in Procs :
      /\ h[p].kind = "probe" /\ h[p].pc = "done" /\ h[p].status = 400
      /\ h[p].sid # EmptySid /\ h[p].sid \notin DOMAIN sessions

\* --------------------------------------------------------------------- C16
\* The locks handler p holds.
Holds(p) == (IF sm = p THEN {"sm"} ELSE {}) \cup {a \in Addrs : heap[a].mu = p}

\* Handler p waits for the network (a write of the download stream, the
\* upload body) or for the timer of its sleep.
Blocked(p) == h[p].pc \in {"dl_loop", "up_read", "rs_sleep"}

\* C16: a handler that streams a download, reads an upload body or sleeps
\* between two polls holds neither the registry lock nor a session lock; the
\* holder of a lock is always a handler whose next step needs no network, no
\* timer and no other lock.
C16_NoLockAcrossWait ==
    /\ \A p \in Procs : Blocked(p) => Holds(p) = {}
    /\ sm # 0 => Runnable(sm)
    /\ \A a \in Addrs : heap[a].mu # 0 => Runnable(heap[a].mu)

\* An upload body is being read while another handler is inside the critical
\* section of the same record.
C16_Witness ==
    \E p, q \in Procs :
      /\ h[p].pc = "up_read" /\ q # p
      /\ heap[h[p].s].mu = q

\* --------------------------------------------------------------------- C18
\* Handler p is about to request the registry lock / a session lock.
WantsSm(p) == h[p].pc = "ix_lock"
WantsMu(p) == h[p].pc \in {"st_set", "pr_commit", "dl_commit", "up_commit", "rs_lock"}

\* C18: a handler holds at most one lock and holds none when it requests
\* one; hence no handler is stuck: each running handler can take a step, or
\* waits for the network or its timer, or waits for a lock whose holder can
\* take a step.
C18_NoDeadlock ==
    \A p \in Procs :
      /\ Cardinality(Holds(p)) <= 1
      /\ WantsSm(p) \/ WantsMu(p) => Holds(p) = {}
      /\ InFlight(p) =>
           \/ Runnable(p)
           \/ Blocked(p)
           \/ WantsSm(p) /\ sm # 0 /\ Runnable(sm)
           \/ WantsMu(p) /\ heap[h[p].s].mu # 0 /\ Runnable(heap[h[p].s].mu)

\* One handler is inside idxGet, another waits for the registry lock.
C18_Witness ==
    \E p, q \in Procs :
      /\ sm = p /\ h[p].pc = "ix_body"
      /\ q # p /\ WantsSm(q)

\* --------------------------------------------------------------------- C19
\* C19: the four values of a poll are the fields of the record in one state:
\* from the first read to the unlock the poller holds the session lock and
\* what it has read so far equals the record, and at the second read all
\* four values equal the record; the summary renders the values of the poll.
C19_Locked ==
    \A p \in Procs :
      h[p].pc = "rs_read2" =>
        /\ heap[h[p].s].mu = p
        /\ h[p].pings = heap[h[p].s].Pings
        /\ h[p].download = heap[h[p].s].DownloadB

C19_Reads ==
    \A p \in Procs :
      /\ h[p].pc = "rs_read2" /\ h'[p].pc = "rs_check" =>
           /\ h'[p].pings = heap[h[p].s].Pings
           /\ h'[p].download = heap[h[p].s].DownloadB
           /\ h'[p].upload = heap[h[p].s].UploadB
           /\ h'[p].client = heap[h[p].s].ClientHost
      /\ h[p].pc = "rs_check" /\ h'[p].pc = "done" =>
           /\ h'[p].pings = h[p].pings
           /\ h'[p].download = h[p].download
           /\ h'[p].upload = h[p].upload
           /\ h'[p].client = (IF h[p].client = "" THEN RemoteHost ELSE h[p].client)

C19_Snapshot == [](C19_Locked) /\ [][C19_Reads]_vars

\* A poll is between its two reads while a probe, a download or an upload
\* waits to commit to the same record.
C19_Witness ==
    \E p, q \in Procs :
      /\ h[p].pc = "rs_read2"
      /\ h[q].pc \in {"pr_commit", "dl_commit", "up_commit"}
      /\ h[q].s = h[p].s

\* --------------------------------------------------------------------- C17
\* The probes of the client's session that were processed.
ChainProbed ==
    {p \in ChainProcs : h[p].kind = "probe" /\ h[p].pc = "done" /\ h[p].status = 200}

\* C17: the page of a probe with counter n sends the client to probe n + 1
\* of the same session exactly when n < 8, and otherwise hands out the
\* download of that session; for the client on the chain, the k-th request
\* after start is the probe with counter k, it arrives when the probes
\* 1..k-1 have been processed, and the download arrives only when the eight
\* probes 1..8 have been processed (and have left eight samples).
C17_Page ==
    \A p \in ChainProcs :
      h[p].pc = "pr_commit" /\ h'[p].pc = "done" =>
        /\ h'[p].status = 200 /\ h'[p].sid = h[p].sid
        /\ h'[p].next = "probe" <=> h[p].n < lastProbe
        /\ h'[p].next = "probe" => h'[p].n = h[p].n + 1
        /\ h'[p].next # "probe" =>
             h'[p].next = "download" /\ h'[p].size = defaultSize

C17_Order ==
    \A p \in ChainProcs :
      /\ h[p].kind = "probe" /\ InFlight(p) =>
           /\ h[p].n = p - 1 /\ h[p].n <= lastProbe
           /\ ChainProbed = 2..(p - 1)
           /\ h[p].sid = h[1].sid
      /\ h[p].kind = "download" =>
           /\ p = lastProbe + 2
           /\ ChainProbed = 2..(lastProbe + 1)
           /\ h[p].sid = h[1].sid
           /\ Len(heap[sessions[h[p].sid]].Pings) = lastProbe

C17_ProbeChain == [](C17_Order) /\ [][C17_Page]_vars

\* The client has reached the download.
C17_Witness ==
    /\ h[lastProbe + 2].kind = "download"
    /\ h[lastProbe + 2].pc = "done"

\* --------------------------------------------------------------------- C20
\* A poll of p that found a positive download rate after p had waited: the
\* rate was committed while p was waiting.
C20_Found(p) ==
    /\ h[p].kind = "results" /\ h[p].pc = "rs_check"
    /\ Positive(h[p].download) /\ clock > h[p].began

\* C20 as stated: a poll reads the rate the record holds, and a poll that
\* finds a rate committed while the request was waiting returns the summary
\* with that rate, before the deadline has passed.  (Checked with the clock
\* of TickRT.)
C20_BeforeTimeout ==
    [][\A p \in Procs :
         /\ h[p].pc = "rs_lock" /\ h'[p].pc = "rs_read2" =>
              h'[p].download = heap[h[p].s].DownloadB
         /\ C20_Found(p) /\ Acts(p) =>
              /\ h'[p].pc = "done" /\ h'[p].status = 200
              /\ h'[p].download = h[p].download
              /\ clock <= h[p].deadline]_vars

\* C20 amended: a waiting results request polls again no later than poll
\* after any moment at which the rate is committed; a poll reads the rate
\* the record holds, and a poll that finds a rate committed while the
\* request was waiting returns the summary with that rate, no later than
\* waitTimeout + poll after the request began, which can be after the
\* deadline.  (Checked with the clock of TickRT.)
C20_Sleeps ==
    \A p \in Procs :
      h[p].pc = "rs_sleep" =>
        /\ clock <= h[p].wake
        /\ h[p].wake <= clock + poll
        /\ h[p].wake <= h[p].began + waitTimeout + poll

C20_Returns ==
    \A p \in Procs :
      /\ h[p].pc = "rs_lock" /\ h'[p].pc = "rs_read2" =>
           h'[p].download = heap[h[p].s].DownloadB
      /\ C20_Found(p) /\ Acts(p) =>
           /\ h'[p].pc = "done" /\ h'[p].status = 200
           /\ h'[p].download = h[p].download
           /\ clock <= h[p].began + waitTimeout + poll

C20_NextPoll == [](C20_Sleeps) /\ [][C20_Returns]_vars

\* A poll after the deadline finds a rate that was committed while the
\* request was waiting.
C20_Witness ==
    \E p \in Procs : C20_Found(p) /\ clock > h[p].deadline

====
